---- MODULE Spec2Model ----
(***************************************************************************)
(* State-machine model of the interactive FTP client / file manager of     *)
(* src/main.cpp: the shell loop of main(), FtpClient and LocalFileManager.  *)
(* Strings are sequences of one-character strings, so that back(),          *)
(* find_last_of(), substr(), operator< and the listing regex are computed   *)
(* character by character, as the code computes them.                       *)
(***************************************************************************)
EXTENDS Integers, Sequences, FiniteSets, TLC

(***************************************************************************)
(* Bounds of the model.                                                     *)
(***************************************************************************)
\* longest path `cd` builds beyond the url of the last connect
MaxPathLen == 6
\* deepest local directory the modelled filesystem holds
MaxDepth == 1
\* most lines in one remote listing response
MaxListing == 2
\* most entries in one local directory
MaxEntries == 3

(***************************************************************************)
(* Program constants.                                                       *)
(***************************************************************************)
\* std::string::npos, the "not found" result of find_last_of
Npos == -1
\* the literal 5 of `last_slash > 5`
RootFloor == 5
\* the largest size_t; only "larger than every string length" matters
SIZE_MAX == 2147483647

(***************************************************************************)
(* Characters.                                                              *)
(***************************************************************************)
\* the character's code, as unsigned char comparison sees it
Code(c) ==
    CASE c = " " -> 32 [] c = "-" -> 45 [] c = "." -> 46 [] c = "/" -> 47
      [] c = "0" -> 48 [] c = "1" -> 49 [] c = "2" -> 50 [] c = "3" -> 51
      [] c = "4" -> 52 [] c = "5" -> 53 [] c = "6" -> 54 [] c = "7" -> 55
      [] c = "8" -> 56 [] c = "9" -> 57 [] c = ":" -> 58
      [] c = "A" -> 65 [] c = "B" -> 66 [] c = "C" -> 67 [] c = "D" -> 68
      [] c = "E" -> 69 [] c = "I" -> 73 [] c = "J" -> 74 [] c = "L" -> 76
      [] c = "S" -> 83
      [] c = "T" -> 84 [] c = "X" -> 88
      [] c = "a" -> 97 [] c = "b" -> 98 [] c = "c" -> 99 [] c = "d" -> 100
      [] c = "e" -> 101 [] c = "f" -> 102 [] c = "g" -> 103 [] c = "h" -> 104
      [] c = "i" -> 105 [] c = "k" -> 107 [] c = "l" -> 108 [] c = "m" -> 109
      [] c = "n" -> 110 [] c = "o" -> 111 [] c = "p" -> 112 [] c = "r" -> 114
      [] c = "s" -> 115 [] c = "t" -> 116 [] c = "u" -> 117 [] c = "v" -> 118
      [] c = "w" -> 119 [] c = "x" -> 120 [] c = "y" -> 121

\* ::tolower on one character
tolower(c) ==
    CASE c = "A" -> "a" [] c = "B" -> "b" [] c = "C" -> "c" [] c = "D" -> "d"
      [] c = "E" -> "e" [] c = "I" -> "i" [] c = "L" -> "l" [] c = "S" -> "s"
      [] c = "T" -> "t" [] c = "X" -> "x"
      [] OTHER -> c

\* std::transform(command.begin(), command.end(), command.begin(), ::tolower)
LowerCase(s) == [i \in 1..Len(s) |-> tolower(s[i])]

\* whitespace, as operator>> and the regex class \s see it
IsSpace(c) == c = " "

\* the regex classes \d and [0-9]
IsDigit(c) == Code(c) >= 48 /\ Code(c) <= 57

\* the regex class [drwx\-]
IsPermChar(c) == c \in {"d", "r", "w", "x", "-"}

(***************************************************************************)
(* std::string operations.                                                  *)
(***************************************************************************)
\* a - b in size_t arithmetic: a negative difference wraps to a huge value
SizeSub(a, b) == IF a >= b THEN a - b ELSE SIZE_MAX - (b - a) + 1

\* find_last_of with its pos argument dropped: the search starts at the end
find_last_of_from_end(s, ch, pos) ==
    LET hits == {i \in 0..(Len(s) - 1) : s[i + 1] = ch}
    IN  IF hits = {} THEN Npos
        ELSE CHOOSE i \in hits : \A j \in hits : j <= i

\* s.find_last_of(ch, pos): the 0-based index of the last ch at or before
\* pos, or npos
find_last_of(s, ch, pos) ==
    LET from == IF pos >= Len(s) THEN Len(s) - 1 ELSE pos
        hits == {i \in 0..from : s[i + 1] = ch}
    IN  IF hits = {} THEN Npos
        ELSE CHOOSE i \in hits : \A j \in hits : j <= i

\* s.substr(0, n)
substr0(s, n) == SubSeq(s, 1, IF n > Len(s) THEN Len(s) ELSE n)

\* s.back(): the last character of a non-empty string
back(s) == s[Len(s)]

\* a < b for std::string: lexicographic on the character codes
RECURSIVE StrLess(_, _)
StrLess(a, b) ==
    IF b = <<>> THEN FALSE
    ELSE IF a = <<>> THEN TRUE
    ELSE IF Code(Head(a)) # Code(Head(b)) THEN Code(Head(a)) < Code(Head(b))
    ELSE StrLess(Tail(a), Tail(b))

(***************************************************************************)
(* split_command: operator>> tokenization of one input line.                *)
(***************************************************************************)
\* the line with its leading whitespace dropped
RECURSIVE SkipSpaces(_)
SkipSpaces(s) ==
    IF s # <<>> /\ IsSpace(Head(s)) THEN SkipSpaces(Tail(s)) ELSE s

\* the length of the longest prefix of s whose characters all satisfy the
\* class named by cls
RECURSIVE RunLen(_, _)
RunLen(s, cls) ==
    IF s = <<>> THEN 0
    ELSE LET c == Head(s)
             in == CASE cls = "space" -> IsSpace(c)
                     [] cls = "nonspace" -> ~IsSpace(c)
                     [] cls = "digit" -> IsDigit(c)
                     [] cls = "perm" -> IsPermChar(c)
         IN  IF in THEN 1 + RunLen(Tail(s), cls) ELSE 0

RECURSIVE split_command(_)
split_command(line) ==
    LET s == SkipSpaces(line)
        n == RunLen(s, "nonspace")
    IN  IF s = <<>> THEN <<>>
        ELSE <<SubSeq(s, 1, n)>> \o split_command(SubSeq(s, n + 1, Len(s)))

(***************************************************************************)
(* FtpClient: the pure parts.                                               *)
(***************************************************************************)
\* the ".." literal of change_directory
DotDot == <<".", ".">>

\* ensure_trailing_slash without its append
ensure_trailing_slash_never(url, ubAppend) == url

\* ensure_trailing_slash(url).  On an empty url, url.back() is undefined
\* behaviour: the byte it reads either compares unequal to '/' (ubAppend,
\* a slash is appended) or equal to it (nothing is appended).
ensure_trailing_slash(url, ubAppend) ==
    IF url = <<>> THEN (IF ubAppend THEN <<"/">> ELSE <<>>)
    ELSE IF back(url) # "/" THEN url \o <<"/">>
    ELSE url


\* change_directory without its second ensure_trailing_slash
change_directory_no_final_slash(url, dir_name, ubAppend) ==
    LET last_slash == find_last_of(url, "/", SizeSub(Len(url), 2))
    IN  IF dir_name = DotDot /\ last_slash # Npos /\ last_slash > RootFloor
        THEN substr0(url, last_slash + 1)
        ELSE IF dir_name = DotDot /\ last_slash = Npos
        THEN url
        ELSE ensure_trailing_slash(url, ubAppend) \o dir_name

\* FtpClient::change_directory: the base_url it leaves behind, from the
\* base_url it finds, the argument and the outcome of the undefined back()
change_directory(url, dir_name, ubAppend) ==
    LET last_slash == find_last_of(url, "/", SizeSub(Len(url), 2))
    IN  IF dir_name = DotDot /\ last_slash # Npos /\ last_slash > RootFloor
        THEN substr0(url, last_slash + 1)
        ELSE IF dir_name = DotDot /\ last_slash = Npos
        THEN url
        ELSE ensure_trailing_slash(
                 ensure_trailing_slash(url, ubAppend) \o dir_name, TRUE)

\* the address download, upload, create_remote_directory and
\* delete_remote_path hand to libcurl
full_url(url, name, ubAppend) == ensure_trailing_slash(url, ubAppend) \o name

\* the decimal digits of the largest uintmax_t, 18446744073709551615
UintMaxDigits ==
    <<"1","8","4","4","6","7","4","4","0","7",
      "3","7","0","9","5","5","1","6","1","5">>

\* the digits without their leading zeros ("0" for zero)
RECURSIVE StripZeros(_)
StripZeros(d) ==
    IF Len(d) > 1 /\ Head(d) = "0" THEN StripZeros(Tail(d)) ELSE d

\* whether std::stoull throws std::out_of_range on a run of digits: the
\* value does not fit uintmax_t
stoull_throws(digits) ==
    LET d == StripZeros(digits)
    IN  \/ Len(d) > Len(UintMaxDigits)
        \/ (Len(d) = Len(UintMaxDigits) /\ StrLess(UintMaxDigits, d))

\* std::stoull on a run of digits that fits: the value, written in
\* canonical decimal
stoull(digits) == StripZeros(digits)

\* the fields of the listing regex before its last group, in order:
\* ([drwx\-]+)\s+\d+\s+[^\s]+\s+[^\s]+\s+([0-9]+)\s+[^\s]+\s+[^\s]+\s+
ListingFields ==
    <<"perm", "space", "digit", "space", "nonspace", "space",
      "nonspace", "space", "digit", "space", "nonspace", "space",
      "nonspace", "space">>

\* the lengths of the runs the fields match at the start of s, each the
\* longest run of its class (no shorter run lets the next field match, the
\* classes of neighbouring fields being disjoint); <<>> when a field
\* matches nothing
RECURSIVE MatchRuns(_, _)
MatchRuns(s, fields) ==
    IF fields = <<>> THEN <<>>
    ELSE LET n == RunLen(s, Head(fields))
             rest == MatchRuns(SubSeq(s, n + 1, Len(s)), Tail(fields))
         IN  IF n = 0 THEN <<>>
             ELSE IF Len(fields) > 1 /\ rest = <<>> THEN <<>>
             ELSE <<n>> \o rest

\* the sum of the first k run lengths
RECURSIVE SumTo(_, _)
SumTo(runs, k) == IF k = 0 THEN 0 ELSE runs[k] + SumTo(runs, k - 1)

\* std::regex_match(line, matches, re): whether the whole line matches, and
\* the three groups.  The last \s+ is greedy; when nothing follows it, it
\* gives its last blank back to (.+).
regex_match(line) ==
    LET runs == MatchRuns(line, ListingFields)
        used == SumTo(runs, Len(runs))
        tail == SubSeq(line, used + 1, Len(line))
        lastGap == runs[Len(ListingFields)]
        matched == runs # <<>> /\ (tail # <<>> \/ lastGap >= 2)
    IN  IF ~matched THEN [ok |-> FALSE, perms |-> <<>>, size |-> <<>>, name |-> <<>>]
        ELSE [ok |-> TRUE,
              perms |-> SubSeq(line, 1, runs[1]),
              size |-> SubSeq(line, SumTo(runs, 8) + 1, SumTo(runs, 9)),
              name |-> IF tail # <<>> THEN tail ELSE <<back(line)>>]

\* FtpClient::parse_ftp_entry.  threw: std::stoull threw std::out_of_range,
\* which nothing catches.
parse_ftp_entry(line) ==
    LET m == regex_match(line)
    IN  IF m.ok
        THEN IF stoull_throws(m.size)
             THEN [threw |-> TRUE, name |-> <<>>, is_directory |-> FALSE,
                   size |-> <<"0">>]
             ELSE [threw |-> FALSE, name |-> m.name,
                   is_directory |-> (Head(m.perms) = "d"),
                   size |-> stoull(m.size)]
        ELSE [threw |-> FALSE, name |-> line, is_directory |-> FALSE,
              size |-> <<"0">>]

(***************************************************************************)
(* The command keywords of main().                                          *)
(***************************************************************************)
K_connect == <<"c", "o", "n", "n", "e", "c", "t">>
K_ls == <<"l", "s">>
K_dir == <<"d", "i", "r">>
K_cd == <<"c", "d">>
K_mkdir == <<"m", "k", "d", "i", "r">>
K_rm == <<"r", "m">>
K_get == <<"g", "e", "t">>
K_put == <<"p", "u", "t">>
K_lls == <<"l", "l", "s">>
K_ldir == <<"l", "d", "i", "r">>
K_lcd == <<"l", "c", "d">>
K_lmkdir == <<"l", "m", "k", "d", "i", "r">>
K_lrm == <<"l", "r", "m">>
K_lmv == <<"l", "m", "v">>
K_help == <<"h", "e", "l", "p">>
K_exit == <<"e", "x", "i", "t">>

\* every keyword main() compares the command with
Keywords ==
    {K_connect, K_ls, K_dir, K_cd, K_mkdir, K_rm,
     K_get, K_put, K_lls, K_ldir, K_lcd, K_lmkdir,
     K_lrm, K_lmv, K_help, K_exit}

(***************************************************************************)
(* The inputs the model draws from: tokens, input lines, listings.          *)
(***************************************************************************)
T_a == <<"a">>
T_a_slash == <<"a", "/">>
T_a_b == <<"a", "/", "b">>
T_x == <<"x">>
T_y == <<"y">>
T_one == <<"1">>
T_zero == <<"0">>
T_userpass == <<"u", ":", "p">>
T_foo == <<"f", "o", "o">>
T_EXIT == <<"E", "X", "I", "T">>
U_ftp == <<"f", "t", "p", ":", "/", "/", "h">>
U_ftp_slash == <<"f", "t", "p", ":", "/", "/", "h", "/">>
U_ftp_2slash == <<"f", "t", "p", ":", "/", "/", "h", "/", "/">>

\* "drwxr-xr-x 2 user group 4096 Jan 1 00:00 subdir"
LineDir ==
    <<"d", "r", "w", "x", "r", "-", "x", "r", "-", "x", " ", "2", " ", "u", "s", "e", "r", " ", "g", "r", "o", "u", "p", " ", "4", "0", "9", "6", " ", "J", "a", "n", " ", "1", " ", "0", "0", ":", "0", "0", " ", "s", "u", "b", "d", "i", "r">>
\* "-rw-r--r-- 1 user group 01536 Jan 1 00:00 a b"
LineFile ==
    <<"-", "r", "w", "-", "r", "-", "-", "r", "-", "-", " ", "1", " ", "u", "s", "e", "r", " ", "g", "r", "o", "u", "p", " ", "0", "1", "5", "3", "6", " ", "J", "a", "n", " ", "1", " ", "0", "0", ":", "0", "0", " ", "a", " ", "b">>
\* "not a listing line"
LineBad ==
    <<"n", "o", "t", " ", "a", " ", "l", "i", "s", "t", "i", "n", "g", " ", "l", "i", "n", "e">>
\* "-rw-r--r-- 1 user group 18446744073709551616 Jan 1 00:00 big"
LineBig ==
    <<"-", "r", "w", "-", "r", "-", "-", "r", "-", "-", " ", "1", " ", "u", "s", "e", "r", " ", "g", "r", "o", "u", "p", " ", "1", "8", "4", "4", "6", "7", "4", "4", "0", "7", "3", "7", "0", "9", "5", "5", "1", "6", "1", "6", " ", "J", "a", "n", " ", "1", " ", "0", "0", ":", "0", "0", " ", "b", "i", "g">>
LineEmpty == <<>>

\* the urls `connect` is given
Urls == {U_ftp, U_ftp_slash, U_ftp_2slash}

\* the names `cd` is given
Names == {T_a, T_a_slash, T_a_b, DotDot}

\* the token sequences of the input lines
CommandLines ==
    {<<K_connect>>, <<K_connect, U_ftp_slash, T_userpass>>,
     <<K_connect, U_ftp, T_userpass, T_x>>}
    \cup {<<K_connect, u>> : u \in Urls}
    \cup {<<K_ls>>, <<K_dir>>, <<K_ls, T_a>>}
    \cup {<<K_cd>>, <<K_cd, T_a, T_a>>} \cup {<<K_cd, n>> : n \in Names}
    \cup {<<K_mkdir>>, <<K_mkdir, T_a>>}
    \cup {<<K_rm, T_a>>, <<K_rm, T_a, T_one>>, <<K_rm, T_a, T_zero>>}
    \cup {<<K_get, T_a>>, <<K_get, T_a, T_x>>}
    \cup {<<K_put, T_x>>, <<K_put, T_x, T_a>>}
    \cup {<<K_lls>>, <<K_ldir>>, <<K_lls, T_x>>}
    \cup {<<K_lcd>>, <<K_lcd, T_x>>, <<K_lcd, DotDot>>}
    \cup {<<K_lmkdir>>, <<K_lmkdir, T_x>>}
    \cup {<<K_lrm>>, <<K_lrm, T_x>>}
    \cup {<<K_lmv, T_x>>, <<K_lmv, T_x, T_y>>}
    \cup {<<K_help>>, <<K_exit>>, <<T_EXIT>>, <<K_exit, T_x>>, <<T_foo>>}

\* the tokens written out as one line, gap blanks between neighbours
RECURSIVE Join(_, _)
Join(tokens, gap) ==
    IF tokens = <<>> THEN <<>>
    ELSE IF Len(tokens) = 1 THEN Head(tokens)
    ELSE Head(tokens) \o [i \in 1..gap |-> " "] \o Join(Tail(tokens), gap)

\* the lines standard input may hold: every command line, single-spaced;
\* two lines with leading, doubled and trailing blanks; an empty line and
\* a blank one
InputLines ==
    {Join(t, 1) : t \in CommandLines}
    \cup {<<" ">> \o Join(t, 2) \o <<" ">> : t \in {<<K_cd, T_a>>, <<K_ls>>}}
    \cup {<<>>, <<" ">>}

\* the lines the input may end with, no newline after them
LastLines ==
    {Join(t, 1) : t \in {<<K_ls>>, <<K_cd, T_a>>, <<K_exit>>, <<T_foo>>}}
    \cup {<<" ">>}

\* the listings the server may answer with, as sequences of lines
RemoteListings ==
    {l \in {<<>>, <<LineDir>>, <<LineBad>>, <<LineFile, LineDir>>,
            <<LineDir, LineBig>>, <<LineEmpty, LineFile>>,
            <<LineFile, LineDir, LineBad>>} : Len(l) <= MaxListing}

\* the raw text of a listing: every line followed by a newline
RECURSIVE ListData(_)
ListData(lines) ==
    IF lines = <<>> THEN <<>>
    ELSE Head(lines) \o <<"\n">> \o ListData(Tail(lines))

\* the entries a local directory may hold, as the filesystem reports them
LocalEntries ==
    {[name |-> <<"d", "i", "r", "B">>, is_directory |-> TRUE,
      is_regular_file |-> FALSE, file_size |-> <<"0">>],
     [name |-> <<"f", "i", "l", "e", "A">>, is_directory |-> FALSE,
      is_regular_file |-> TRUE, file_size |-> <<"1", "0", "2", "4">>],
     [name |-> <<"d", "i", "r", "A">>, is_directory |-> TRUE,
      is_regular_file |-> FALSE, file_size |-> <<"0">>],
     [name |-> <<"f", "i", "l", "e", "B">>, is_directory |-> FALSE,
      is_regular_file |-> FALSE, file_size |-> <<"7">>]}

EntryDirB == CHOOSE e \in LocalEntries : e.name = <<"d", "i", "r", "B">>
EntryDirA == CHOOSE e \in LocalEntries : e.name = <<"d", "i", "r", "A">>
EntryFileA == CHOOSE e \in LocalEntries : e.name = <<"f", "i", "l", "e", "A">>
EntryFileB == CHOOSE e \in LocalEntries : e.name = <<"f", "i", "l", "e", "B">>

\* the directories fs::directory_iterator may report, each in one of the
\* orders it may report it in
LocalListings ==
    {l \in {<<>>, <<EntryFileA>>, <<EntryFileB, EntryFileA>>,
            <<EntryFileA, EntryDirB, EntryDirA>>,
            <<EntryDirB, EntryFileA, EntryDirA, EntryFileB>>,
            <<EntryFileB, EntryDirA, EntryFileA, EntryDirB>>}
        : Len(l) <= MaxEntries}

(***************************************************************************)
(* Listings: reading, sorting, rendering.                                   *)
(***************************************************************************)
\* the lines std::getline(ss, line, '\n') yields from the raw text, in order
RECURSIVE GetLines(_)
GetLines(data) ==
    IF data = <<>> THEN <<>>
    ELSE LET nl == {i \in 1..Len(data) : data[i] = "\n"}
             n == IF nl = {} THEN Len(data) + 1
                  ELSE CHOOSE i \in nl : \A j \in nl : i <= j
         IN  <<SubSeq(data, 1, n - 1)>> \o GetLines(SubSeq(data, n + 1, Len(data)))

\* the row printed for one entry: its type column, its name and its size
Row(name, is_directory, size) ==
    [name |-> name, is_directory |-> is_directory, size |-> size]

\* the loop of FtpClient::list_directory over the lines of the response:
\* the rows printed, and whether parse_ftp_entry threw on the way
RECURSIVE RenderRemote(_)
RenderRemote(lines) ==
    IF lines = <<>> THEN [rows |-> <<>>, threw |-> FALSE]
    ELSE IF Head(lines) = <<>> THEN RenderRemote(Tail(lines))
    ELSE LET entry == parse_ftp_entry(Head(lines))
             rest == RenderRemote(Tail(lines))
         IN  IF entry.threw THEN [rows |-> <<>>, threw |-> TRUE]
             ELSE [rows |-> <<Row(entry.name, entry.is_directory, entry.size)>>
                            \o rest.rows,
                   threw |-> rest.threw]

\* LocalFileManager::compareFiles
compareFiles(a, b) ==
    IF a.is_directory # b.is_directory
    THEN a.is_directory /\ ~b.is_directory
    ELSE StrLess(a.name, b.name)

\* e put into the sorted sequence s, before the first entry it compares
\* less than
RECURSIVE InsertSorted(_, _)
InsertSorted(e, s) ==
    IF s = <<>> THEN <<e>>
    ELSE IF compareFiles(e, Head(s)) THEN <<e>> \o s
    ELSE <<Head(s)>> \o InsertSorted(e, Tail(s))

\* std::sort(entries.begin(), entries.end(), compareFiles)
RECURSIVE std_sort(_)
std_sort(entries) ==
    IF entries = <<>> THEN <<>>
    ELSE InsertSorted(Head(entries), std_sort(Tail(entries)))

\* the FileEntry LocalFileManager::list_directory builds from one
\* directory entry
FileEntry(e) ==
    Row(e.name, e.is_directory,
        IF e.is_regular_file THEN e.file_size ELSE <<"0">>)

\* the rows LocalFileManager::list_directory prints for a directory
RenderLocal(listing) ==
    std_sort([i \in 1..Len(listing) |-> FileEntry(listing[i])])

\* every response the server may give to a listing request, with what
\* FtpClient::list_directory makes of it
RemoteReplies ==
    {[list_data |-> ListData(l), out |-> RenderRemote(GetLines(ListData(l)))]
        : l \in RemoteListings}

\* every directory the filesystem may report, with the rows
\* LocalFileManager::list_directory prints for it
LocalReplies ==
    {[listing |-> l, rows |-> RenderLocal(l)] : l \in LocalListings}

(***************************************************************************)
(* The state.                                                               *)
(***************************************************************************)
VARIABLES
    shell,          \* "Running", "Terminated" (main returned) or "Aborted"
                    \* (an exception left main)
    cin,            \* std::cin: "good", "eof" (eofbit) or "fail" (failbit)
    command_line,   \* main's command_line, kept from one iteration to the next
    args,           \* main's args: the tokens of command_line
    eofPrompts,     \* the parity of the prompts printed since the input ended
    base_url,       \* FtpClient::base_url
    user_password,  \* FtpClient::user_password
    curl_userpwd,   \* CURLOPT_USERPWD as set on the one curl handle
    localDirectory, \* the process's current directory, as path segments
    lastCall,       \* the collaborator call this iteration made, if any
    printed,        \* the listing rows this iteration printed
    nav             \* history: the navigation since the last connect

vars == <<shell, cin, command_line, args, eofPrompts, base_url, user_password,
          curl_userpwd, localDirectory, lastCall, printed, nav>>

\* no collaborator call
NoCall == [op |-> "none", url |-> <<>>, ok |-> TRUE, reply |-> <<>>]

\* a collaborator call: its operation, the address or path it was given,
\* whether it reported success and the listing it answered with
Call(op, url, ok, reply) == [op |-> op, url |-> url, ok |-> ok, reply |-> reply]

\* no navigation recorded: no connect yet, or a `cd ..` since; root is the
\* length of the url of the last connect
NoNav(root) == [known |-> FALSE, addr |-> <<>>, plain |-> FALSE, root |-> root]

\* the address a non-empty url stands for: the url, a '/' appended when it
\* does not end in one
normalizeRemote(url) == IF back(url) = "/" THEN url ELSE url \o <<"/">>

\* construction of FtpClient and LocalFileManager, before the first prompt
Init ==
    /\ shell = "Running"
    /\ cin = "good"
    /\ command_line = <<>>
    /\ args = <<>>
    /\ eofPrompts = 0
    /\ base_url = <<>>
    /\ user_password = <<>>
    /\ curl_userpwd = <<>>
    /\ localDirectory = <<>>
    /\ lastCall = NoCall
    /\ printed = <<>>
    /\ nav = NoNav(0)

(***************************************************************************)
(* One iteration of the shell loop: prompt, std::getline, split_command,    *)
(* dispatch.                                                                *)
(***************************************************************************)
\* what main makes of a line before it dispatches: split_command, and the
\* first token lower-cased
Parsed(line) ==
    LET tokens == split_command(line)
    IN  [line |-> line, args |-> tokens,
         command |-> IF tokens = <<>> THEN <<>> ELSE LowerCase(tokens[1])]

\* the outcomes of std::getline on a good stream: a line ended by a
\* newline; a last line ended by the end of input (eofbit); nothing at the
\* end of input (the line is erased, failbit)
GoodReads ==
    {[p |-> Parsed(l), cin |-> "good"] : l \in InputLines}
    \cup {[p |-> Parsed(l), cin |-> "eof"] : l \in LastLines}
    \cup {[p |-> Parsed(<<>>), cin |-> "fail"]}

\* the outcomes of std::getline(std::cin, command_line).  Once cin is not
\* good the sentry fails: nothing is read, failbit is set and command_line
\* keeps its value.
getline(state, line) ==
    IF state = "good" THEN GoodReads
    ELSE {[p |-> Parsed(line), cin |-> "fail"]}

\* the prompt is printed and the line read
ReadLine(r) ==
    /\ shell = "Running"
    /\ eofPrompts' = IF r.cin = "fail" THEN 1 - eofPrompts ELSE 0
    /\ command_line' = r.p.line
    /\ args' = r.p.args
    /\ cin' = r.cin

\* the argument checks with cd's `== 2` written `>= 2`
args_accepted_cd_lax(command, n) ==
    CASE command = K_connect -> n >= 2
      [] command = K_cd -> n >= 2
      [] command \in {K_mkdir, K_lcd, K_lmkdir, K_lrm} -> n = 2
      [] command \in {K_rm, K_get, K_put, K_lmv} -> n = 3
      [] OTHER -> TRUE

\* the argument checks of main's dispatch chain: whether a line of n tokens
\* is handed to the command's operation (else the usage hint is printed).
\* ls, dir, lls, ldir, help and exit are not checked.
args_accepted(command, n) ==
    CASE command = K_connect -> n >= 2
      [] command \in {K_cd, K_mkdir, K_lcd, K_lmkdir, K_lrm} -> n = 2
      [] command \in {K_rm, K_get, K_put, K_lmv} -> n = 3
      [] OTHER -> TRUE

\* what a step that only prints leaves alone
NoEffect ==
    /\ lastCall' = NoCall
    /\ printed' = <<>>
    /\ UNCHANGED <<shell, base_url, user_password, curl_userpwd,
                   localDirectory, nav>>

\* args.empty(): continue
EmptyLine ==
    \E r \in getline(cin, command_line) :
        /\ r.p.args = <<>>
        /\ ReadLine(r)
        /\ NoEffect

\* exit: break
Exit ==
    \E r \in getline(cin, command_line) :
        LET argv == r.p.args
        IN  /\ r.p.command = K_exit
            /\ ReadLine(r)
            /\ shell' = "Terminated"
            /\ lastCall' = NoCall
            /\ printed' = <<>>
            /\ UNCHANGED <<base_url, user_password, curl_userpwd,
                           localDirectory, nav>>

\* help: display_help()
Help ==
    \E r \in getline(cin, command_line) :
        LET argv == r.p.args
        IN  /\ r.p.command = K_help
            /\ ReadLine(r)
            /\ NoEffect

\* any other first token: the "unknown command" message
Unknown ==
    \E r \in getline(cin, command_line) :
        LET argv == r.p.args
        IN  /\ r.p.args # <<>> /\ r.p.command \notin Keywords
            /\ ReadLine(r)
            /\ NoEffect

\* connect: FtpClient::connect when a url is given, else the usage hint
Connect ==
    \E r \in getline(cin, command_line) :
        LET argv == r.p.args
            userpass == IF Len(argv) >= 3 THEN argv[3] ELSE <<>>
        IN  /\ r.p.command = K_connect
            /\ ReadLine(r)
            /\ IF args_accepted(K_connect, Len(argv))
               THEN /\ base_url' = ensure_trailing_slash(argv[2], TRUE)
                    /\ user_password' = userpass
                    /\ curl_userpwd' =
                           IF userpass # <<>> THEN userpass ELSE curl_userpwd
                    /\ nav' = [known |-> TRUE, addr |-> normalizeRemote(argv[2]),
                               plain |-> TRUE, root |-> Len(base_url')]
                    /\ lastCall' = NoCall
                    /\ printed' = <<>>
                    /\ UNCHANGED <<shell, localDirectory>>
               ELSE NoEffect

\* cd: FtpClient::change_directory when one name is given, else the usage
\* hint
Cd ==
    \E r \in getline(cin, command_line) :
        LET argv == r.p.args
        IN  /\ r.p.command = K_cd
            /\ ReadLine(r)
            /\ IF args_accepted(K_cd, Len(argv))
               THEN \E ubAppend \in (IF base_url = <<>> THEN BOOLEAN ELSE {TRUE}) :
                      /\ Len(change_directory(base_url, argv[2], ubAppend))
                             <= nav.root + MaxPathLen
                      /\ base_url' =
                             change_directory(base_url, argv[2], ubAppend)
                      /\ nav' =
                             IF nav.known /\ argv[2] # DotDot
                             THEN [nav EXCEPT
                                     !.addr = @ \o argv[2] \o <<"/">>,
                                     !.plain = @ /\ back(argv[2]) # "/"]
                             ELSE NoNav(nav.root)
                      /\ lastCall' = NoCall
                      /\ printed' = <<>>
                      /\ UNCHANGED <<shell, user_password, curl_userpwd,
                                     localDirectory>>
               ELSE NoEffect

\* ls, dir: FtpClient::list_directory, whatever else the line holds.  The
\* transfer fails (as it must for an empty url), or answers with a listing
\* whose lines are parsed and printed one by one; an exception thrown on
\* the way leaves main.
Ls ==
    \E r \in getline(cin, command_line) :
        LET argv == r.p.args
        IN  /\ r.p.command \in {K_ls, K_dir}
            /\ ReadLine(r)
            /\ \/ /\ lastCall' = Call("list", base_url, FALSE, <<>>)
                  /\ printed' = <<>>
                  /\ shell' = shell
               \/ \E reply \in RemoteReplies :
                    /\ base_url # <<>>
                    /\ lastCall' = Call("list", base_url, TRUE, reply.list_data)
                    /\ printed' = reply.out.rows
                    /\ shell' = IF reply.out.threw THEN "Aborted" ELSE shell
            /\ UNCHANGED <<base_url, user_password, curl_userpwd,
                           localDirectory, nav>>

\* what a step that only calls a collaborator leaves alone
CallOnly ==
    /\ printed' = <<>>
    /\ UNCHANGED <<shell, base_url, user_password, curl_userpwd,
                   localDirectory, nav>>

\* the outcomes of the undefined back() in full_url's ensure_trailing_slash
UbOutcomes == IF base_url = <<>> THEN BOOLEAN ELSE {TRUE}

\* mkdir: FtpClient::create_remote_directory, or the usage hint
Mkdir ==
    \E r \in getline(cin, command_line) :
        LET argv == r.p.args
        IN  /\ r.p.command = K_mkdir
            /\ ReadLine(r)
            /\ IF args_accepted(K_mkdir, Len(argv))
               THEN /\ \E ok \in BOOLEAN, ub \in UbOutcomes :
                         lastCall' = Call("MKD", full_url(base_url, argv[2], ub), ok, <<>>)
                    /\ CallOnly
               ELSE NoEffect

\* rm: FtpClient::delete_remote_path, or the usage hint
Rm ==
    \E r \in getline(cin, command_line) :
        LET argv == r.p.args
            is_dir == argv[3] \in {<<"1">>, <<"t", "r", "u", "e">>}
        IN  /\ r.p.command = K_rm
            /\ ReadLine(r)
            /\ IF args_accepted(K_rm, Len(argv))
               THEN /\ \E ok \in BOOLEAN, ub \in UbOutcomes :
                         lastCall' = Call(IF is_dir THEN "RMD" ELSE "DELE",
                                          full_url(base_url, argv[2], ub), ok, <<>>)
                    /\ CallOnly
               ELSE NoEffect

\* get: FtpClient::download, or the usage hint
Get ==
    \E r \in getline(cin, command_line) :
        LET argv == r.p.args
        IN  /\ r.p.command = K_get
            /\ ReadLine(r)
            /\ IF args_accepted(K_get, Len(argv))
               THEN /\ \E ok \in BOOLEAN, ub \in UbOutcomes :
                         lastCall' = Call("RETR", full_url(base_url, argv[2], ub), ok, <<>>)
                    /\ CallOnly
               ELSE NoEffect

\* put: FtpClient::upload, or the usage hint.  The local file may fail to
\* open, and then no transfer is started.
Put ==
    \E r \in getline(cin, command_line) :
        LET argv == r.p.args
        IN  /\ r.p.command = K_put
            /\ ReadLine(r)
            /\ IF args_accepted(K_put, Len(argv))
               THEN /\ \/ lastCall' = Call("fopen", argv[2], FALSE, <<>>)
                       \/ \E ok \in BOOLEAN, ub \in UbOutcomes :
                            lastCall' = Call("STOR", full_url(base_url, argv[3], ub), ok, <<>>)
                    /\ CallOnly
               ELSE NoEffect

\* lls, ldir: LocalFileManager::list_directory, whatever else the line
\* holds.  A filesystem_error is caught and nothing is printed.
Lls ==
    \E r \in getline(cin, command_line) :
        LET argv == r.p.args
        IN  /\ r.p.command \in {K_lls, K_ldir}
            /\ ReadLine(r)
            /\ \/ /\ lastCall' = Call("directory_iterator", <<>>, FALSE, <<>>)
                  /\ printed' = <<>>
               \/ \E reply \in LocalReplies :
                    /\ lastCall' = Call("directory_iterator", <<>>, TRUE,
                                        reply.listing)
                    /\ printed' = reply.rows
            /\ UNCHANGED <<shell, base_url, user_password, curl_userpwd,
                           localDirectory, nav>>

\* the directory fs::current_path(p, ec) moves to from dir, for p a single
\* name or ".."
Resolve(dir, p) ==
    IF p = DotDot
    THEN (IF dir = <<>> THEN <<>> ELSE SubSeq(dir, 1, Len(dir) - 1))
    ELSE Append(dir, p)

\* change_directory committing the new directory whatever ec says
setLocal_unchecked(dir, p, ok) == Resolve(dir, p)

\* LocalFileManager::change_directory: the current directory it leaves
\* behind, by whether fs::current_path(p, ec) reported success
setLocal(dir, p, ok) == IF ok THEN Resolve(dir, p) ELSE dir

\* lcd: LocalFileManager::change_directory, or the usage hint.  The
\* filesystem reports success only for a directory it holds.
Lcd ==
    \E r \in getline(cin, command_line) :
        LET argv == r.p.args
        IN  /\ r.p.command = K_lcd
            /\ ReadLine(r)
            /\ IF args_accepted(K_lcd, Len(argv))
               THEN \E ok \in BOOLEAN :
                      /\ ok => Len(Resolve(localDirectory, argv[2])) <= MaxDepth
                      /\ lastCall' = Call("current_path", argv[2], ok, <<>>)
                      /\ localDirectory' = setLocal(localDirectory, argv[2], ok)
                      /\ printed' = <<>>
                      /\ UNCHANGED <<shell, base_url, user_password,
                                     curl_userpwd, nav>>
               ELSE NoEffect

\* lmkdir: LocalFileManager::create_directory, or the usage hint
Lmkdir ==
    \E r \in getline(cin, command_line) :
        LET argv == r.p.args
        IN  /\ r.p.command = K_lmkdir
            /\ ReadLine(r)
            /\ IF args_accepted(K_lmkdir, Len(argv))
               THEN /\ \E ok \in BOOLEAN :
                         lastCall' = Call("create_directory", argv[2], ok, <<>>)
                    /\ CallOnly
               ELSE NoEffect

\* lrm: LocalFileManager::remove_path, or the usage hint
Lrm ==
    \E r \in getline(cin, command_line) :
        LET argv == r.p.args
        IN  /\ r.p.command = K_lrm
            /\ ReadLine(r)
            /\ IF args_accepted(K_lrm, Len(argv))
               THEN /\ \E ok \in BOOLEAN :
                         lastCall' = Call("remove", argv[2], ok, <<>>)
                    /\ CallOnly
               ELSE NoEffect

\* lmv: LocalFileManager::move_path, or the usage hint
Lmv ==
    \E r \in getline(cin, command_line) :
        LET argv == r.p.args
        IN  /\ r.p.command = K_lmv
            /\ ReadLine(r)
            /\ IF args_accepted(K_lmv, Len(argv))
               THEN /\ \E ok \in BOOLEAN :
                         lastCall' = Call("rename", argv[2], ok, <<>>)
                    /\ CallOnly
               ELSE NoEffect

\* the body of main's while (true)
Next ==
    \/ EmptyLine \/ Exit \/ Help \/ Unknown
    \/ Connect \/ Ls \/ Cd \/ Mkdir \/ Rm \/ Get \/ Put
    \/ Lls \/ Lcd \/ Lmkdir \/ Lrm \/ Lmv

Spec == Init /\ [][Next]_vars

\* the loop never pauses between iterations: std::getline returns at once
\* when the input has ended, and main goes round again
FairSpec == Spec /\ WF_vars(Next)

(***************************************************************************)
(* Vocabulary of the properties.                                            *)
(***************************************************************************)
\* the length of the scheme://host/ prefix of url: a non-empty scheme, then
\* "://", then a non-empty host without '/', then '/'; 0 when url has no
\* such prefix
RootLen(url) ==
    LET colons == {i \in 1..Len(url) : url[i] = ":"}
        k == CHOOSE i \in colons : \A j \in colons : i <= j
        slashes == {i \in (k + 3)..Len(url) : url[i] = "/"}
        e == CHOOSE i \in slashes : \A j \in slashes : i <= j
    IN  IF colons = {} THEN 0
        ELSE IF k = 1 \/ k + 2 > Len(url) THEN 0
        ELSE IF url[k + 1] # "/" \/ url[k + 2] # "/" THEN 0
        ELSE IF \E i \in 1..(k - 1) : url[i] = "/" THEN 0
        ELSE IF slashes = {} THEN 0
        ELSE IF e = k + 3 THEN 0
        ELSE e

\* url is a server root: scheme://host/ and nothing after it
IsServerRoot(url) == RootLen(url) > 0 /\ Len(url) = RootLen(url)

\* url has at least one path segment beyond the server root and ends the
\* last one with '/'
HasSegmentBeyondRoot(url) ==
    /\ RootLen(url) > 0
    /\ Len(url) > RootLen(url)
    /\ url[RootLen(url) + 1] # "/"
    /\ back(url) = "/"

\* a line of tokens dispatches `cd` with exactly one name
IsCd(tokens) ==
    /\ Len(tokens) = 2
    /\ LowerCase(tokens[1]) = K_cd

\* the name has no '/' before its last character
NoInnerSlash(name) == \A i \in 1..(Len(name) - 1) : name[i] # "/"

(***************************************************************************)
(* C1.  At a server root (remoteBase of the form scheme://host/), `cd ..`   *)
(* leaves remoteBase exactly unchanged, however often it is repeated.       *)
(* The code does not do this: see C1_AscendAtRootIsNoOp's violation.        *)
(***************************************************************************)
C1_AscendAtRootIsNoOp ==
    [][(IsCd(args') /\ args'[2] = DotDot /\ IsServerRoot(base_url))
          => base_url' = base_url]_vars

(***************************************************************************)
(* C2.  As claimed: once connect or cd has set it, remoteBase ends with     *)
(* exactly one '/'.                                                          *)
(***************************************************************************)
C2_ExactlyOneTrailingSlash ==
    base_url # <<>> =>
        /\ back(base_url) = "/"
        /\ (Len(base_url) >= 2 => base_url[Len(base_url) - 1] # "/")

(***************************************************************************)
(* C2, amended.  Once connect or cd has set it, remoteBase ends with '/'    *)
(* (with more than one when the url or the name given brings them).         *)
(***************************************************************************)
C2_TrailingSlash == base_url # <<>> => back(base_url) = "/"

\* a cd issued before any connect has set remoteBase
C2_Witness ==
    /\ IsCd(args)
    /\ ~nav.known /\ nav.root = 0
    /\ base_url \in {<<"a", "/">>, <<"/", "a", "/">>}

(***************************************************************************)
(* C3.  As claimed: from a remoteBase with a segment beyond the root, `cd   *)
(* n` for any non-empty name n (".." is no descent and is left out)         *)
(* followed by `cd ..` gives the remoteBase back.  Stated on the step that  *)
(* dispatches `cd n`: the `cd ..` that follows it leads back to where that  *)
(* step started.                                                            *)
(***************************************************************************)
C3_DescendAscendAnyName ==
    [][(IsCd(args') /\ args'[2] # DotDot /\ HasSegmentBeyondRoot(base_url))
          => change_directory(base_url', DotDot, TRUE) = base_url]_vars

(***************************************************************************)
(* C3, amended.  The same, for every name n other than ".." that has no     *)
(* '/' before its last character.                                            *)
(***************************************************************************)
C3_DescendAscend ==
    [][(/\ IsCd(args')
        /\ args'[2] # DotDot
        /\ NoInnerSlash(args'[2])
        /\ HasSegmentBeyondRoot(base_url))
          => change_directory(base_url', DotDot, TRUE) = base_url]_vars

\* `cd a` has just descended from ftp://h/a/
C3_Witness ==
    /\ IsCd(args) /\ args[2] = T_a
    /\ base_url = U_ftp_slash \o <<"a", "/", "a", "/">>

(***************************************************************************)
(* C4.  As claimed: after connect u and cd n1 .. cd nk (no ".."), a listing *)
(* is requested for normalize(u) + n1 + "/" + .. + nk + "/".                 *)
(***************************************************************************)
C4_ListsNavigatedAddressAnyName ==
    (lastCall.op = "list" /\ nav.known) => lastCall.url = nav.addr

(***************************************************************************)
(* C4, amended.  The same, when none of the names ends in '/'.               *)
(***************************************************************************)
C4_ListsNavigatedAddress ==
    (lastCall.op = "list" /\ nav.known /\ nav.plain)
        => lastCall.url = nav.addr

\* connect ftp://h/, cd a, ls: the listing is requested for ftp://h/a/
C4_Witness ==
    /\ lastCall.op = "list"
    /\ nav.known /\ nav.plain
    /\ lastCall.url = U_ftp_slash \o <<"a", "/">>

(***************************************************************************)
(* C5.  As claimed: a recognized command given a number of arguments other  *)
(* than the command table's (connect: one or two; ls, dir, lls, ldir, help, *)
(* exit: none; cd, mkdir, lcd, lmkdir, lrm: one; rm, get, put, lmv: two)    *)
(* makes no collaborator call and changes neither remoteBase, the           *)
(* credentials nor localDirectory.                                          *)
(***************************************************************************)
\* the numbers of arguments the command table gives a command
TableArgCounts(command) ==
    CASE command = K_connect -> {1, 2}
      [] command \in {K_cd, K_mkdir, K_lcd, K_lmkdir, K_lrm} -> {1}
      [] command \in {K_rm, K_get, K_put, K_lmv} -> {2}
      [] OTHER -> {0}

\* the line names a recognized command with a number of arguments the
\* command table does not give it
TableMismatch(tokens) ==
    /\ tokens # <<>>
    /\ LowerCase(tokens[1]) \in Keywords
    /\ (Len(tokens) - 1) \notin TableArgCounts(LowerCase(tokens[1]))

\* the step made no collaborator call and left remoteBase, the credentials
\* and localDirectory alone
OnlyPrinted ==
    /\ lastCall' = NoCall
    /\ UNCHANGED <<base_url, user_password, curl_userpwd, localDirectory>>

C5_MismatchOnlyPrintsUsage == [][TableMismatch(args') => OnlyPrinted]_vars

(***************************************************************************)
(* C5, amended.  The same for the commands whose arguments main counts: cd, *)
(* mkdir, lcd, lmkdir, lrm given other than one argument, rm, get, put, lmv *)
(* given other than two, connect given none.  (ls, dir, lls, ldir, help and *)
(* exit run whatever follows them; connect ignores what follows its second  *)
(* argument.)                                                               *)
(***************************************************************************)
\* the line names a command whose arguments main counts, with another count
CountedMismatch(tokens) ==
    /\ TableMismatch(tokens)
    /\ LowerCase(tokens[1]) \notin {K_ls, K_dir, K_lls, K_ldir, K_help, K_exit}
    /\ (LowerCase(tokens[1]) = K_connect => Len(tokens) = 1)

C5_CountedMismatchOnlyPrintsUsage ==
    [][CountedMismatch(args') => OnlyPrinted]_vars

\* `cd a a` after a connect: remoteBase is still the connected url
C5_Witness ==
    /\ args = <<K_cd, T_a, T_a>>
    /\ lastCall = NoCall
    /\ base_url = U_ftp_slash

(***************************************************************************)
(* C6.  Once the input has ended (std::getline has failed), the shell       *)
(* eventually reaches Terminated.  The code does not do this: it reads and  *)
(* dispatches for ever.                                                     *)
(***************************************************************************)
C6_EndOfInputTerminates == (cin = "fail") ~> (shell = "Terminated")

(***************************************************************************)
(* C7.  The shell leaves Running only through the exit keyword.  The code   *)
(* does not do this: an exception of std::stoull leaves main.               *)
(***************************************************************************)
C7_OnlyExitLeavesRunning ==
    [][(shell = "Running" /\ shell' # "Running")
          => (args' # <<>> /\ LowerCase(args'[1]) = K_exit)]_vars

(***************************************************************************)
(* C8.  A listing line of the fields permissions, link count, owner, group, *)
(* size, three date/time fields and a name is printed with isDirectory =    *)
(* (the first permission character is 'd'), the numeric size and the name   *)
(* verbatim from the ninth field on; any other line is printed whole, as a  *)
(* file of size 0.  The code does not do this: it skips two date/time       *)
(* fields, not three.                                                       *)
(***************************************************************************)
\* the line from the start of its (k+1)-th whitespace-separated field on
RECURSIVE FromField(_, _)
FromField(line, k) ==
    LET s == SkipSpaces(line)
    IN  IF k = 0 THEN s
        ELSE FromField(SubSeq(s, RunLen(s, "nonspace") + 1, Len(s)), k - 1)

\* the line has the nine fields, its link count and size numeric
HasListingColumns(line) ==
    LET f == split_command(line)
    IN  /\ Len(f) >= 9
        /\ \A i \in 1..Len(f[2]) : IsDigit(f[2][i])
        /\ \A i \in 1..Len(f[5]) : IsDigit(f[5][i])

\* the row the claim gives a line
ClaimedRow(line) ==
    LET f == split_command(line)
    IN  IF HasListingColumns(line)
        THEN Row(FromField(line, 8), f[1][1] = "d", StripZeros(f[5]))
        ELSE Row(line, FALSE, <<"0">>)

\* the rows the claim gives the non-empty lines
RECURSIVE ClaimedRows(_)
ClaimedRows(lines) ==
    IF lines = <<>> THEN <<>>
    ELSE IF Head(lines) = <<>> THEN ClaimedRows(Tail(lines))
    ELSE <<ClaimedRow(Head(lines))>> \o ClaimedRows(Tail(lines))

C8_ListingLinesParsed ==
    (lastCall.op = "list" /\ lastCall.ok /\ shell = "Running")
        => printed = ClaimedRows(GetLines(lastCall.reply))

(***************************************************************************)
(* C9.  Every listing printed, local or remote, has its directories before  *)
(* its files and each group in ascending case-sensitive order of name.  The *)
(* code does not do this for remote listings: it prints them as received.   *)
(***************************************************************************)
\* row a belongs before row b
ComesBefore(a, b) ==
    \/ a.is_directory /\ ~b.is_directory
    \/ a.is_directory = b.is_directory /\ StrLess(a.name, b.name)

C9_ListingsSorted ==
    (lastCall.op \in {"list", "directory_iterator"} /\ lastCall.ok)
        => \A i, j \in 1..Len(printed) :
               i < j => ~ComesBefore(printed[j], printed[i])

(***************************************************************************)
(* C10.  A command whose collaborator call fails leaves remoteBase and      *)
(* localDirectory as they were, and localDirectory changes only on an lcd   *)
(* whose collaborator call succeeded.                                       *)
(***************************************************************************)
C10_FailureKeepsPathState ==
    [][/\ (lastCall'.op # "none" /\ ~lastCall'.ok)
            => (base_url' = base_url /\ localDirectory' = localDirectory)
       /\ localDirectory' # localDirectory
            => (lastCall'.op = "current_path" /\ lastCall'.ok)]_vars

\* an lcd has failed below the start directory, after a connect
C10_Witness ==
    /\ lastCall.op = "current_path" /\ ~lastCall.ok
    /\ localDirectory # <<>>
    /\ base_url # <<>>

(***************************************************************************)
(* C11.  The credentials the one curl handle applies to remote operations  *)
(* are those given in the most recent connect: a connect without user:pass *)
(* after a connect with user:pass leaves none of the earlier credentials   *)
(* on the handle.  The code does not do this: FtpClient::connect stores    *)
(* the new value in user_password but sets CURLOPT_USERPWD only when the   *)
(* value is not empty, so the handle keeps the option of the earlier       *)
(* connect.                                                                *)
(***************************************************************************)
C11_HandleHasLatestCredentials == curl_userpwd = user_password

====
